---- MODULE Spec2Model ----
(***************************************************************************)
(* Leaderboard backend (src/src/index.ts): POST /add-user and              *)
(* POST /claim-points over a document store with multi-document            *)
(* transactions.                                                           *)
(*                                                                         *)
(* A handler is an async function: it runs without interruption from one   *)
(* `await` to the next.  Each action below is the continuation that runs   *)
(* when one awaited storage call settles (resolves or rejects), up to the  *)
(* next awaited call.  A storage call takes effect atomically when it      *)
(* resolves and has no effect when it rejects.  Any awaited storage call   *)
(* may reject (storage fault); a write inside a transaction also rejects   *)
(* on a write conflict (snapshot isolation, first writer wins).            *)
(***************************************************************************)
EXTENDS Integers, Sequences, FiniteSets, Bags, TLC

\* ---------------------------------------------------------------- bounds
MaxUsers == 2
MaxClaims == 2
MaxNameLen == 3
NumSamples == 2
MaxRecords == 11
MaxPeriod == 3
MaxStamp == 2

\* A request body's name: a string over a whitespace and a letter, or no
\* name field at all.
Chars == {" ", "a"}
NoName == <<"undefined">>
Strings == UNION {[1..n -> Chars] : n \in 0..MaxNameLen}
NameInputs == Strings \cup {NoName}

\* A request body's userId: 0 stands for a missing or empty one, the other
\* values are identifiers the store may or may not hold.
NoUserId == 0
UserIdInputs == 0..MaxUsers

\* Math.random() returns r/100 for one of NumSamples evenly spread r in 0..99.
RandomSamples == {(k * 99) \div (NumSamples - 1) : k \in 0..(NumSamples - 1)}

\* ------------------------------------------------------- pure functions
IsSpace(ch) == ch = " "

RECURSIVE TrimStart(_)
TrimStart(s) ==
  IF s # <<>> /\ IsSpace(Head(s)) THEN TrimStart(Tail(s)) ELSE s

RECURSIVE TrimEnd(_)
TrimEnd(s) ==
  IF s # <<>> /\ IsSpace(s[Len(s)]) THEN TrimEnd(SubSeq(s, 1, Len(s) - 1)) ELSE s

TrimStartOnly(name) == TrimStart(name)

\* String.prototype.trim
Trim(name) == TrimEnd(TrimStart(name))

FalsyNever(userId) == FALSE

\* !userId
Falsy(userId) == userId = NoUserId

RandomPointsWide(r) == (r * 11) \div 100 + 1

\* Math.floor(Math.random() * 10) + 1, with Math.random() = r/100
RandomPoints(r) == (r * 10) \div 100 + 1

AddPointsOverwrite(points, randomPoints) == randomPoints

\* user.points += randomPoints
AddPoints(points, randomPoints) == points + randomPoints

\* A document that is not there (null / undefined).
NoDoc == [_id |-> 0, name |-> <<>>, points |-> 0]
NoRecord == [userId |-> 0, points |-> 0, timestamp |-> 0]

\* new User({ name }) with the schema default points: 0
NewUser(id, name) == [_id |-> id, name |-> name, points |-> 0]

NewHistoryOne(userId, points, ts) ==
  [userId |-> userId, points |-> 1, timestamp |-> ts]

\* new History({ userId, points: randomPoints }) with the schema default
\* timestamp: Date.now
NewHistory(userId, points, ts) ==
  [userId |-> userId, points |-> points, timestamp |-> ts]

\* The rejection of an awaited storage call: which call, and why.
NoError == [at |-> "none", kind |-> "none"]
Fault(step) == [at |-> step, kind |-> "fault"]
Conflict(step) == [at |-> step, kind |-> "conflict"]

NoWrites == [user |-> 0, history |-> FALSE]

\* ----------------------------------------------------------------- state
VARIABLES
  users,     \* committed User collection: sequence of [doc, ver], _id = index
  history,   \* committed History collection, in insertion order
  now,       \* Date.now()
  lastAdd,   \* the latest /add-user request and its response
  claims,    \* the /claim-points requests received: a bag of handler states
  reply      \* the response of a GET route that is being sent, if any

vars == <<users, history, now, lastAdd, claims, reply>>

UserIds == 1..Len(users)

\* No /add-user request was received yet.
NoAdd == [name |-> <<>>, status |-> 0, user |-> NoDoc]
NoReply == [route |-> "none", status |-> 0, body |-> <<>>]

\* The state of one /claim-points handler, as the request arrives.
\*   pc             the awaited call the handler is suspended on
\*   userId         req.body.userId
\*   randomPoints   the award drawn
\*   user           the document findById returned, points updated
\*   historyRecord  the History document built
\*   readVer        version of the user document in the transaction's snapshot
\*   session        "none", "active", "ended"
\*   txn            "none", "open", "committed", "aborted"
\*   wrote          the transaction's staged writes: _id of the user document
\*                  written (0 if none), and whether the record was inserted
\*   status         HTTP status sent, 0 while none is sent
\*   error          the rejection the catch block is handling
\*   failure        kind of rejection the request met, "none" if none
Arrived(id) ==
  [pc |-> "arrived", userId |-> id, randomPoints |-> 0, user |-> NoDoc,
   historyRecord |-> NoRecord, readVer |-> 0, session |-> "none",
   txn |-> "none", wrote |-> NoWrites, status |-> 0, error |-> NoError,
   failure |-> "none"]

\* The requests received, each once however many are in the same state.
Requests == BagToSet(claims)

Init ==
  /\ users = <<>>
  /\ history = <<>>
  /\ now = 0
  /\ lastAdd = NoAdd
  /\ claims = EmptyBag
  /\ reply = NoReply

\* ------------------------------------------------------------- /add-user
\* The whole handler: one awaited call, newUser.save().  A body without a
\* name makes name.trim() throw outside the try block: the handler's promise
\* rejects and no response is sent (status 0).
AddUser(name, fault) ==
  /\ Len(users) < MaxUsers
  /\ IF name = NoName
       THEN /\ lastAdd' = [name |-> name, status |-> 0, user |-> NoDoc]
            /\ users' = users
     ELSE IF Trim(name) = <<>>
       THEN /\ lastAdd' = [name |-> name, status |-> 400, user |-> NoDoc]
            /\ users' = users
     ELSE IF fault
       THEN /\ lastAdd' = [name |-> name, status |-> 500, user |-> NoDoc]
            /\ users' = users
     ELSE LET newUser == NewUser(Len(users) + 1, Trim(name)) IN
            /\ users' = Append(users, [doc |-> newUser, ver |-> 0])
            /\ lastAdd' = [name |-> name, status |-> 201, user |-> newUser]
  /\ UNCHANGED <<history, now, claims, reply>>

\* --------------------------------------------------------- /claim-points
FindByIdAny(id) ==
  IF id \in UserIds THEN users[id].doc
  ELSE IF users # <<>> THEN users[1].doc ELSE NoDoc

\* User.findById(userId).session(session): the committed document, or null
FindById(id) == IF id \in UserIds THEN users[id].doc ELSE NoDoc

WriteConflictNever(cl, id) == FALSE

\* user.save({ session }) by a transaction that has not written yet: the
\* write conflicts when the document was committed by another transaction
\* after this one's snapshot, or is written by another transaction that is
\* still open.
WriteConflict(cl, id) ==
  \/ users[id].ver # cl.readVer
  \/ \E other \in Requests : other.txn = "open" /\ other.wrote.user = id

CommittedUsersNoSet(cl) == users

\* The User collection once the transaction's staged $set of points is applied.
CommittedUsers(cl) ==
  IF cl.wrote.user # 0
    THEN [users EXCEPT ![cl.wrote.user] =
            [doc |-> [@.doc EXCEPT !.points = cl.user.points], ver |-> @.ver + 1]]
    ELSE users

CommittedHistoryNoInsert(cl) == history

CommittedHistoryOverwrite(cl) == <<cl.historyRecord>>

\* The History collection once the transaction's staged insert is applied.
CommittedHistory(cl) ==
  IF cl.wrote.history THEN Append(history, cl.historyRecord) ELSE history

\* What a handler that has left its try block without committing still
\* holds: user and historyRecord are scoped to the try block, the award
\* is not read again, and the snapshot is dropped.
LeftTry(cl) ==
  [cl EXCEPT !.user = NoDoc, !.historyRecord = NoRecord, !.readVer = 0,
             !.randomPoints = 0]

\* The handler returns after res.status(code).send(...).  The locals of a
\* returned handler are unreachable; of a successful one the response body
\* { user, message } is kept.
Respond(cl, code) ==
  IF code = 200
    THEN [cl EXCEPT !.pc = "done", !.status = code, !.historyRecord = NoRecord,
                    !.readVer = 0]
    ELSE [LeftTry(cl) EXCEPT !.pc = "done", !.status = code, !.error = NoError]

\* The handler's promise rejects: it returns without sending a response.
\* Its transaction, if still open, keeps its staged writes.
Reject(cl) ==
  [LeftTry(cl) EXCEPT !.pc = "rejected", !.error = NoError]

\* A rejection caught by the try block: catch (error) runs up to its
\* awaited session.abortTransaction().
Catch(cl, e) ==
  [LeftTry(cl) EXCEPT !.pc = "abortCatch", !.error = e, !.failure = e.kind]

\* Handler cl moves to state next.
Step(cl, next) ==
  claims' = (claims (-) SetToBag({cl})) (+) SetToBag({next})

\* Request arrives; runs up to `await mongoose.startSession()`.
ClaimPoints(id, r) ==
  /\ BagCardinality(claims) < MaxClaims
  /\ IF Falsy(id)
       THEN claims' = claims (+) SetToBag({Respond(Arrived(id), 400)})
       ELSE claims' = claims (+) SetToBag({
              [Arrived(id) EXCEPT !.randomPoints = RandomPoints(r),
                                  !.pc = "startSession"]})
  /\ UNCHANGED <<users, history, now, lastAdd, reply>>

\* startSession settles.  It is awaited outside the try block: a rejection
\* leaves the handler without sending a response.  On success
\* session.startTransaction() runs and findById is awaited.
StartSession(cl, fault) ==
  /\ cl.pc = "startSession"
  /\ IF fault
       THEN Step(cl, Reject([cl EXCEPT !.failure = "fault"]))
       ELSE Step(cl, [cl EXCEPT !.session = "active", !.txn = "open",
                                !.pc = "findById"])
  /\ UNCHANGED <<users, history, now, lastAdd, reply>>

\* findById settles: the transaction's snapshot is taken here.  Not found:
\* abortTransaction is awaited.  Found: user.points += randomPoints and
\* user.save({ session }) is awaited.
FindUser(cl, fault) ==
  /\ cl.pc = "findById"
  /\ LET found == FindById(cl.userId) IN
     IF fault
       THEN Step(cl, Catch(cl, Fault("findById")))
     ELSE IF found = NoDoc
       THEN Step(cl, [cl EXCEPT !.pc = "abortNotFound"])
     ELSE Step(cl, [cl EXCEPT
            !.user = [found EXCEPT !.points = AddPoints(found.points, cl.randomPoints)],
            !.readVer = users[found._id].ver,
            !.pc = "saveUser"])
  /\ UNCHANGED <<users, history, now, lastAdd, reply>>

\* The not-found path's abortTransaction settles.  On success 404 is sent
\* (the session is not ended on this path).
AbortNotFound(cl, fault) ==
  /\ cl.pc = "abortNotFound"
  /\ IF fault
       THEN Step(cl, Catch(cl, Fault("abortTransaction")))
       ELSE Step(cl, Respond([cl EXCEPT !.txn = "aborted"], 404))
  /\ UNCHANGED <<users, history, now, lastAdd, reply>>

\* user.save({ session }) settles.  On success the History document is
\* built (its timestamp defaults to Date.now, which may have advanced) and
\* its save is awaited.
SaveUser(cl, fault, tick) ==
  /\ cl.pc = "saveUser"
  /\ IF fault
       THEN Step(cl, Catch(cl, Fault("saveUser"))) /\ now' = now
     ELSE IF WriteConflict(cl, cl.user._id)
       THEN Step(cl, Catch(cl, Conflict("saveUser"))) /\ now' = now
     ELSE /\ now' = now + tick
          /\ Step(cl, [cl EXCEPT
               !.wrote.user = cl.user._id,
               !.historyRecord = NewHistory(cl.userId, cl.randomPoints, now'),
               !.pc = "saveHistory"])
  /\ UNCHANGED <<users, history, lastAdd, reply>>

\* historyRecord.save({ session }) settles; commitTransaction is awaited.
SaveHistory(cl, fault) ==
  /\ cl.pc = "saveHistory"
  /\ IF fault
       THEN Step(cl, Catch(cl, Fault("saveHistory")))
       ELSE Step(cl, [cl EXCEPT !.wrote.history = TRUE, !.pc = "commit"])
  /\ UNCHANGED <<users, history, now, lastAdd, reply>>

\* commitTransaction settles.  On success both staged writes become visible
\* together, the session is ended and 200 is sent.
Commit(cl, fault) ==
  /\ cl.pc = "commit"
  /\ IF fault
       THEN /\ Step(cl, Catch(cl, Fault("commitTransaction")))
            /\ UNCHANGED <<users, history>>
       ELSE /\ users' = CommittedUsers(cl)
            /\ history' = CommittedHistory(cl)
            /\ Step(cl, Respond([cl EXCEPT !.txn = "committed",
                                           !.wrote = NoWrites,
                                           !.session = "ended"], 200))
  /\ UNCHANGED <<now, lastAdd, reply>>

\* The catch block's abortTransaction settles.  On success the staged
\* writes are discarded, the session is ended and 500 is sent.  It is
\* awaited inside the catch block: a rejection leaves the handler without
\* ending the session or sending a response.
AbortCatch(cl, fault) ==
  /\ cl.pc = "abortCatch"
  /\ IF fault
       THEN Step(cl, Reject(cl))
       ELSE Step(cl, Respond([cl EXCEPT !.txn = "aborted",
                                        !.wrote = NoWrites,
                                        !.session = "ended"], 500))
  /\ UNCHANGED <<users, history, now, lastAdd, reply>>

\* ------------------------------------------------------------ GET routes
\* sort({ key: -1 }) over elements [key, val]: insertion into a sequence of
\* non-increasing keys.  The store leaves the order of equal keys open: an
\* element goes after ("after") or before ("before") those of equal key.
RECURSIVE InsertDesc(_, _, _)
InsertDesc(e, sorted, tie) ==
  IF sorted = <<>> THEN <<e>>
  ELSE IF e.key > Head(sorted).key \/ (tie = "before" /\ e.key = Head(sorted).key)
    THEN <<e>> \o sorted
  ELSE <<Head(sorted)>> \o InsertDesc(e, Tail(sorted), tie)

RECURSIVE SortDesc(_, _)
SortDesc(seq, tie) ==
  IF seq = <<>> THEN <<>>
  ELSE InsertDesc(seq[Len(seq)], SortDesc(SubSeq(seq, 1, Len(seq) - 1), tie), tie)

Values(keyed) == [i \in 1..Len(keyed) |-> keyed[i].val]

UsersByPointsDirty ==
  [i \in 1..Len(users) |->
     LET staged == {r \in Requests : r.txn = "open" /\ r.wrote.user = i}
         doc == IF staged = {} THEN users[i].doc
                ELSE [users[i].doc EXCEPT !.points = (CHOOSE r \in staged : TRUE).user.points]
     IN  [key |-> doc.points, val |-> doc]]

\* User.find(): the committed documents, keyed by points
UsersByPoints ==
  [i \in 1..Len(users) |-> [key |-> users[i].doc.points, val |-> users[i].doc]]

\* User.find().sort({ points: -1 }): the committed documents
Rankings(tie) == Values(SortDesc(UsersByPoints, tie))

\* .limit(10)
HistoryLimit == 10

LimitNine(seq) == SubSeq(seq, 1, IF Len(seq) < 9 THEN Len(seq) ELSE 9)

Limit(seq) ==
  SubSeq(seq, 1, IF Len(seq) < HistoryLimit THEN Len(seq) ELSE HistoryLimit)

\* .populate('userId', 'name'): the referenced User's _id and name, or null
Populate(rec) ==
  [rec EXCEPT !.userId =
     IF rec.userId \in UserIds
       THEN [_id |-> rec.userId, name |-> users[rec.userId].doc.name]
       ELSE [_id |-> 0, name |-> <<>>]]

HistoryByTimestamp ==
  [i \in 1..Len(history) |-> [key |-> history[i].timestamp, val |-> history[i]]]

\* History.find().sort({ timestamp: -1 }).limit(10).populate('userId', 'name')
LatestHistory(tie) ==
  LET latest == Limit(Values(SortDesc(HistoryByTimestamp, tie))) IN
  [i \in 1..Len(latest) |-> Populate(latest[i])]

\* GET /rankings: the whole handler, one awaited query.
GetRankings(fault, tie) ==
  /\ reply = NoReply
  /\ reply' = IF fault
                THEN [route |-> "/rankings", status |-> 500, body |-> <<>>]
                ELSE [route |-> "/rankings", status |-> 200, body |-> Rankings(tie)]
  /\ UNCHANGED <<users, history, now, lastAdd, claims>>

\* GET /latest-claim-history: the whole handler, one awaited query.
GetLatestClaimHistory(fault, tie) ==
  /\ reply = NoReply
  /\ reply' = IF fault
                THEN [route |-> "/latest-claim-history", status |-> 500, body |-> <<>>]
                ELSE [route |-> "/latest-claim-history", status |-> 200,
                      body |-> LatestHistory(tie)]
  /\ UNCHANGED <<users, history, now, lastAdd, claims>>

\* The response leaves the server.
SendReply ==
  /\ reply # NoReply
  /\ reply' = NoReply
  /\ UNCHANGED <<users, history, now, lastAdd, claims>>

\* ------------------------------------------------------- specifications
\* Registration alone, over every name input.
NextAddUser ==
  \E name \in NameInputs, fault \in BOOLEAN : AddUser(name, fault)

SpecAddUser == Init /\ [][NextAddUser]_vars

\* Claims against registered users.  The claim handler never reads a name
\* and a failed registration changes nothing but its own response, so users
\* register here under one name.
Next ==
  \/ AddUser(<<"a">>, FALSE)
  \/ \E id \in UserIdInputs, r \in RandomSamples : ClaimPoints(id, r)
  \/ \E cl \in Requests, fault \in BOOLEAN : StartSession(cl, fault)
  \/ \E cl \in Requests, fault \in BOOLEAN : FindUser(cl, fault)
  \/ \E cl \in Requests, fault \in BOOLEAN : AbortNotFound(cl, fault)
  \/ \E cl \in Requests, fault \in BOOLEAN, tick \in {0, 1} : SaveUser(cl, fault, tick)
  \/ \E cl \in Requests, fault \in BOOLEAN : SaveHistory(cl, fault)
  \/ \E cl \in Requests, fault \in BOOLEAN : Commit(cl, fault)
  \/ \E cl \in Requests, fault \in BOOLEAN : AbortCatch(cl, fault)

Spec == Init /\ [][Next]_vars

\* Rankings read while users register and claims run to a commit, a 404 or a
\* write conflict (the storage faults of the claim's calls are in Spec).  A
\* response is a value computed from the store in one step, which nothing
\* the store does later can change: it is sent before the next step is taken.
NextRankings ==
  \/ reply = NoReply /\ AddUser(<<"a">>, FALSE)
  \/ reply = NoReply /\ \E id \in UserIdInputs, r \in RandomSamples : ClaimPoints(id, r)
  \/ reply = NoReply /\ \E cl \in Requests : StartSession(cl, FALSE)
  \/ reply = NoReply /\ \E cl \in Requests : FindUser(cl, FALSE)
  \/ reply = NoReply /\ \E cl \in Requests : AbortNotFound(cl, FALSE)
  \/ reply = NoReply /\ \E cl \in Requests, tick \in {0, 1} : SaveUser(cl, FALSE, tick)
  \/ reply = NoReply /\ \E cl \in Requests : SaveHistory(cl, FALSE)
  \/ reply = NoReply /\ \E cl \in Requests : Commit(cl, FALSE)
  \/ reply = NoReply /\ \E cl \in Requests : AbortCatch(cl, FALSE)
  \/ \E fault \in BOOLEAN, tie \in {"after", "before"} : GetRankings(fault, tie)
  \/ SendReply

SpecRankings == Init /\ [][NextRankings]_vars

\* The history route read over a store that finished claims have filled: n
\* users registered, each with one committed claim, the k-th committed
\* record built at clock value base[k], the values of base repeating from
\* its end.  Claims of different users commit in any order whatever the
\* order their records were built in, so every such history is one the
\* program reaches; up to MaxPeriod records every sequence of timestamps
\* over 0..MaxStamp is drawn.
StampBases == UNION {[1..len -> 0..MaxStamp] : len \in 1..MaxPeriod}

StampOf(base, k) == base[((k - 1) % Len(base)) + 1]

RECURSIVE MaxOf(_)
MaxOf(S) ==
  IF S = {} THEN 0
  ELSE LET x == CHOOSE y \in S : TRUE
           m == MaxOf(S \ {x})
       IN  IF x > m THEN x ELSE m

InitLatestHistory ==
  \E n \in 0..MaxRecords, base \in StampBases :
    /\ users = [k \in 1..n |->
                  [doc |-> [NewUser(k, <<"a">>) EXCEPT !.points = RandomPoints(0)],
                   ver |-> 1]]
    /\ history = [k \in 1..n |-> NewHistory(k, RandomPoints(0), StampOf(base, k))]
    /\ now = MaxOf({StampOf(base, k) : k \in 1..n})
    /\ lastAdd = IF n = 0 THEN NoAdd
                 ELSE [name |-> <<"a">>, status |-> 201, user |-> NewUser(n, <<"a">>)]
    /\ claims = EmptyBag
    /\ reply = NoReply

NextLatestHistory ==
  \/ \E fault \in BOOLEAN, tie \in {"after", "before"} : GetLatestClaimHistory(fault, tie)
  \/ SendReply

SpecLatestHistory == InitLatestHistory /\ [][NextLatestHistory]_vars

\* ------------------------------------------------------------ vocabulary
Returned == {"done", "rejected"}

PointsOf(u) == users[u].doc.points

\* The committed ClaimRecords of user u, in insertion order.
HistoryOf(u) == SelectSeq(history, LAMBDA rec : rec.userId = u)

RECURSIVE SumPoints(_)
SumPoints(records) ==
  IF records = <<>> THEN 0
  ELSE Head(records).points + SumPoints(Tail(records))

\* Number of requests in the states of S, and the sum of their awards.
RECURSIVE NumberOf(_)
NumberOf(S) ==
  IF S = {} THEN 0
  ELSE LET r == CHOOSE x \in S : TRUE IN CopiesIn(r, claims) + NumberOf(S \ {r})

RECURSIVE SumAwards(_)
SumAwards(S) ==
  IF S = {} THEN 0
  ELSE LET r == CHOOSE x \in S : TRUE IN
       CopiesIn(r, claims) * r.randomPoints + SumAwards(S \ {r})

\* This step takes one handler from state old to state new.
Stepped(old, new) ==
  /\ old # new
  /\ claims' = (claims (-) SetToBag({old})) (+) SetToBag({new})

\* This step is the arrival of a request, which runs up to state new.
ArrivedAs(new) == claims' = claims (+) SetToBag({new})

\* The request names a user the store does not hold.
UnknownUser(r) == r.userId # NoUserId /\ r.userId \notin UserIds

AwardedTo(u) == {r \in Requests : r.status = 200 /\ r.userId = u}
CommittedOn(u) == {r \in Requests : r.txn = "committed" /\ r.userId = u}

\* ---------------------------------------------------------------- claims

\* C1: in every committed state, whatever requests succeeded or failed, each
\* User's points equal the sum of the points of the committed ClaimRecords
\* that name that user, and every committed record names a User.
BalanceMatchesHistory ==
  /\ \A u \in UserIds : PointsOf(u) = SumPoints(HistoryOf(u))
  /\ \A i \in 1..Len(history) : history[i].userId \in UserIds

\* A record is committed while another request on the store was rolled back.
BalanceMatchesHistoryWitness ==
  /\ history # <<>>
  /\ \E r \in Requests : r.status = 500 /\ r.txn = "aborted"

\* C2: the step in which a claim commits and answers 200 awards an integer in
\* 1..10 and raises the target User's committed points by exactly that award.
AwardAddedToBalance ==
  [][\A old \in Requests : \A new \in BagToSet(claims') :
       Stepped(old, new) /\ new.status = 200 =>
         /\ new.randomPoints \in 1..10
         /\ new.userId \in UserIds
         /\ PointsOf(new.userId)' = PointsOf(new.userId) + new.randomPoints]_vars

\* A claim has succeeded for a user whose balance was already positive.
AwardAddedToBalanceWitness ==
  \E r \in Requests : r.status = 200 /\ r.user.points > r.randomPoints

\* C3: the step in which a claim answers 200 appends exactly one ClaimRecord,
\* naming the claiming userId, whose points equal the amount that step adds
\* to that User's balance; no other step changes the history.
OneRecordPerClaim ==
  [][/\ \A old \in Requests : \A new \in BagToSet(claims') :
          Stepped(old, new) /\ new.status = 200 =>
            /\ Len(history') = Len(history) + 1
            /\ SubSeq(history', 1, Len(history)) = history
            /\ history'[Len(history')].userId = new.userId
            /\ history'[Len(history')].points =
                 PointsOf(new.userId)' - PointsOf(new.userId)
            /\ history'[Len(history')].points = new.randomPoints
     /\ history' # history =>
          \E old \in Requests : \E new \in BagToSet(claims') :
            Stepped(old, new) /\ new.status = 200]_vars

\* Two claims have succeeded.
OneRecordPerClaimWitness ==
  Len(history) = 2 /\ NumberOf({r \in Requests : r.status = 200}) = 2

\* C4 as stated: every answer to a claim for a user the store does not hold
\* is 404, with the transaction aborted.
UnknownUserAlways404 ==
  \A r \in Requests :
    r.pc = "done" /\ UnknownUser(r) => r.status = 404 /\ r.txn = "aborted"

\* C4 amended: a claim for a user the store does not hold never answers 200;
\* it answers 404 when none of its storage calls fails and otherwise answers
\* 500 or is left unanswered; whenever it is answered its transaction is
\* aborted; and no step of it changes a balance or the history.
UnknownUserNoEffect ==
  /\ [](\A r \in Requests :
          r.pc \in Returned /\ UnknownUser(r) =>
            /\ r.status \in {0, 404, 500}
            /\ r.failure = "none" <=> r.status = 404
            /\ r.status # 0 => r.txn = "aborted")
  /\ [][\A old \in Requests : \A new \in BagToSet(claims') :
          Stepped(old, new) /\ UnknownUser(old) =>
            users' = users /\ history' = history]_vars

\* A claim for an unknown user was answered 404 while a user is registered.
UnknownUserNoEffectWitness ==
  /\ users # <<>>
  /\ \E r \in Requests : r.status = 404 /\ UnknownUser(r) /\ r.txn = "aborted"

\* Every request was received, names user u and has returned.
AllClaimed(u) ==
  /\ BagCardinality(claims) = MaxClaims
  /\ \A r \in Requests : r.pc \in Returned /\ r.userId = u

\* C5 as stated: once MaxClaims requests for one registered user have all
\* returned, none having met a storage fault, every one of them was awarded:
\* the balance is the sum of all their awards and the user has MaxClaims
\* ClaimRecords.
AllConcurrentClaimsAwarded ==
  \A u \in UserIds :
    AllClaimed(u) /\ (\A r \in Requests : r.failure # "fault" /\ r.status # 404) =>
      /\ \A r \in Requests : r.status = 200
      /\ PointsOf(u) = SumAwards(Requests)
      /\ Len(HistoryOf(u)) = MaxClaims

\* C5 amended: once MaxClaims requests for one user have all returned, the
\* balance is the sum of the awards of those answered 200, and the user has
\* exactly as many ClaimRecords as requests were answered 200; a request that
\* lost a write conflict was not answered 200.
ConcurrentClaimsSum ==
  \A u \in UserIds :
    AllClaimed(u) =>
      /\ PointsOf(u) = SumAwards(AwardedTo(u))
      /\ Len(HistoryOf(u)) = NumberOf(AwardedTo(u))
      /\ \A r \in Requests : r.failure = "conflict" => r.status # 200

\* All requests named one user; one was awarded and one lost a write conflict.
ConcurrentClaimsSumWitness ==
  \E u \in UserIds :
    /\ AllClaimed(u)
    /\ \E r \in Requests : r.status = 200
    /\ \E r \in Requests : r.status = 500 /\ r.failure = "conflict"

\* The balance a committed claim read before adding its award.
ReadBalance(r) == r.user.points - r.randomPoints

\* C6: no two committed claims on one user read the same balance, and each
\* User's balance is the sum of the awards of the claims committed on it.
NoLostUpdate ==
  \A u \in UserIds :
    /\ \A r1 \in CommittedOn(u) :
         /\ CopiesIn(r1, claims) = 1
         /\ \A r2 \in CommittedOn(u) : r1 # r2 => ReadBalance(r1) # ReadBalance(r2)
    /\ PointsOf(u) = SumAwards(CommittedOn(u))

\* Two claims are committed on the same user.
NoLostUpdateWitness ==
  \E u \in UserIds : NumberOf(CommittedOn(u)) = 2

\* C7: a claim without a userId is answered 400 on arrival, with no session
\* and no transaction, and its arrival leaves the users and the history as
\* they were.
MissingUserIdRejected ==
  /\ [](\A r \in Requests :
          r.userId = NoUserId =>
            /\ r.pc = "done" /\ r.status = 400
            /\ r.session = "none" /\ r.txn = "none")
  /\ [][\A new \in BagToSet(claims') :
          ArrivedAs(new) /\ new.userId = NoUserId =>
            users' = users /\ history' = history]_vars

\* A claim without a userId was answered while another claim is committed.
MissingUserIdRejectedWitness ==
  /\ \E r \in Requests : r.userId = NoUserId /\ r.status = 400
  /\ history # <<>>

\* C8 as stated: when commitTransaction rejects the request is answered 500
\* and the store is as it was; and the step that answers 500 changes neither
\* the users nor the history.
CommitFailureAnswers500 ==
  [][\A old \in Requests : \A new \in BagToSet(claims') :
       /\ Stepped(old, new) /\ old.pc = "abortCatch"
            /\ old.error.at = "commitTransaction" =>
              new.status = 500 /\ users' = users /\ history' = history
       /\ Stepped(old, new) /\ new.status = 500 =>
              users' = users /\ history' = history]_vars

\* C9 as stated: a handler that has returned has resolved its transaction:
\* committed exactly when it answered 200, aborted when it answered 404 or
\* 500, and never left open.
TransactionResolvedOnReturn ==
  \A r \in Requests :
    r.pc \in Returned =>
      /\ r.txn # "open"
      /\ r.txn = "committed" <=> r.status = 200
      /\ r.status \in {404, 500} => r.txn = "aborted"

\* ------------------------------------------------- claims about /add-user
Blank(name) == \A i \in 1..Len(name) : name[i] = " "

\* t is name without its leading and trailing whitespace.
Trimmed(t, name) ==
  \E i, j \in 1..Len(name) :
    /\ t = SubSeq(name, i, j)
    /\ t # <<>> /\ t[1] # " " /\ t[Len(t)] # " "
    /\ \A k \in 1..Len(name) : k < i \/ k > j => name[k] = " "

\* C10: an add-user request whose name is blank is answered 400 and creates
\* no User; one whose name is not blank is answered 201 or, when the store
\* fails, 500; answered 201 it has added exactly one User, with an identifier
\* no other User has, the trimmed name and 0 points, and returns it; answered
\* 500 it has created none.
AddUserContract ==
  [][lastAdd' # lastAdd \/ Len(users') # Len(users) =>
       LET name == lastAdd'.name
           code == lastAdd'.status
           created == users'[Len(users')].doc
       IN  name # NoName =>
             /\ Blank(name) => code = 400 /\ users' = users
             /\ ~Blank(name) => code \in {201, 500}
             /\ code = 500 => users' = users
             /\ code = 201 =>
                  /\ Len(users') = Len(users) + 1
                  /\ SubSeq(users', 1, Len(users)) = users
                  /\ \A u \in UserIds : users[u].doc._id # created._id
                  /\ Trimmed(created.name, name)
                  /\ created.points = 0
                  /\ lastAdd'.user = created]_vars

\* A name with surrounding whitespace was registered.
AddUserContractWitness ==
  /\ lastAdd.status = 201
  /\ Len(lastAdd.user.name) < Len(lastAdd.name)
  /\ users[Len(users)].doc = lastAdd.user

\* C11: GET /rankings, answered 200, returns every committed User exactly
\* once, each as its committed document (never a balance that an open or
\* aborted transaction wrote), no user before another with strictly more
\* points, and changes neither the collections nor any request.
RankingsContract ==
  [][reply' # reply /\ reply'.route = "/rankings" /\ reply'.status = 200 =>
       LET body == reply'.body IN
         /\ Len(body) = Len(users)
         /\ \A u \in UserIds : Cardinality({i \in 1..Len(body) : body[i]._id = u}) = 1
         /\ \A i \in 1..Len(body) :
              body[i]._id \in UserIds /\ body[i] = users[body[i]._id].doc
         /\ \A i, j \in 1..Len(body) : i < j => body[i].points >= body[j].points
         /\ UNCHANGED <<users, history, claims>>]_vars

\* Rankings list the user registered second first, while a transaction that
\* has written a balance is still open.
RankingsContractWitness ==
  /\ reply.route = "/rankings" /\ reply.status = 200
  /\ Len(reply.body) = 2
  /\ reply.body[1]._id = 2
  /\ reply.body[1].points > reply.body[2].points
  /\ \E r \in Requests : r.txn = "open" /\ r.wrote.user # 0

\* The ClaimRecord a populated record of a response stands for.
Unpopulated(rec) == [rec EXCEPT !.userId = @._id]

CountIn(seq, x) == Cardinality({i \in 1..Len(seq) : seq[i] = x})

\* C12: GET /latest-claim-history, answered 200, returns min(10, number of
\* committed ClaimRecords) records, each a committed record and none more
\* often than it is committed, in non-increasing timestamp order, and no
\* committed record left out has a timestamp strictly greater than one that
\* is returned.
LatestHistoryContract ==
  [][reply' # reply /\ reply'.route = "/latest-claim-history" /\ reply'.status = 200 =>
       LET body == [i \in 1..Len(reply'.body) |-> Unpopulated(reply'.body[i])]
           n == Len(history)
       IN  /\ Len(body) = IF n < 10 THEN n ELSE 10
           /\ \A i \in 1..Len(body) : CountIn(body, body[i]) <= CountIn(history, body[i])
           /\ \A i, j \in 1..Len(body) : i < j => body[i].timestamp >= body[j].timestamp
           /\ \A k \in 1..n :
                CountIn(body, history[k]) < CountIn(history, history[k]) =>
                  \A i \in 1..Len(body) : history[k].timestamp <= body[i].timestamp]_vars

\* More than ten records are committed, not in timestamp order; ten are
\* returned, and the one left out is not the one committed last.
LatestHistoryContractWitness ==
  /\ reply.route = "/latest-claim-history" /\ reply.status = 200
  /\ Len(history) > 10 /\ Len(reply.body) = 10
  /\ reply.body[1].timestamp > reply.body[10].timestamp
  /\ \E i, j \in 1..Len(history) : i < j /\ history[i].timestamp < history[j].timestamp
  /\ \E i \in 1..10 : reply.body[i].userId._id = Len(history)

\* C13: a User is created with 0 points; no step removes a User or lowers a
\* committed balance; a committed balance changes only in the step in which
\* a claim-points request for that user commits and is answered 200, and it
\* then grows by between 1 and 10.
PointsGrowOnlyByClaim ==
  [][/\ Len(users') >= Len(users)
     /\ \A u \in 1..Len(users') : u \notin UserIds => users'[u].doc.points = 0
     /\ \A u \in UserIds :
          users'[u].doc.points # PointsOf(u) =>
            /\ users'[u].doc.points - PointsOf(u) \in 1..10
            /\ \E old \in Requests, new \in BagToSet(claims') :
                 /\ Stepped(old, new)
                 /\ old.userId = u /\ old.status = 0
                 /\ new.status = 200 /\ new.txn = "committed"]_vars

\* A user's balance has grown twice, past 10.
PointsGrowOnlyByClaimWitness ==
  \E u \in UserIds : PointsOf(u) > 10 /\ AwardedTo(u) # {}

\* C14: every step keeps each committed ClaimRecord as it is and where it
\* is; the log grows by one record in the step in which a claim-points
\* request commits and is answered 200, and in no other step; every
\* committed record's points are a positive integer.
HistoryAppendOnly ==
  [][/\ Len(history') >= Len(history)
     /\ SubSeq(history', 1, Len(history)) = history
     /\ Len(history') <= Len(history) + 1
     /\ Len(history') = Len(history) + 1 <=>
          \E old \in Requests, new \in BagToSet(claims') :
            Stepped(old, new) /\ old.status = 0 /\ new.status = 200
     /\ \A k \in 1..Len(history') : history'[k].points \in Nat \ {0}]_vars

\* Two claims have committed, one record each.
HistoryAppendOnlyWitness ==
  /\ Len(history) = 2
  /\ \E r \in Requests : r.status = 200 /\ r.txn = "committed"
  /\ history[1] # history[2]

\* C15: in the step in which a claim-points request is answered 200, the
\* user in the response is the committed document of the request's user as
\* it is right after the commit, and the number of points in the message is
\* the points of the ClaimRecord the request has just committed.
SuccessResponseMatchesCommit ==
  [][\A old \in Requests, new \in BagToSet(claims') :
       Stepped(old, new) /\ old.status = 0 /\ new.status = 200 =>
         /\ new.userId \in UserIds
         /\ new.user = users'[new.userId].doc
         /\ Len(history') = Len(history) + 1
         /\ history'[Len(history')].userId = new.userId
         /\ history'[Len(history')].points = new.randomPoints]_vars

\* A second claim of a user was answered 200 with the balance of both awards.
SuccessResponseMatchesCommitWitness ==
  \E r \in Requests, u \in UserIds :
    /\ r.status = 200 /\ r.userId = u
    /\ r.user.points = PointsOf(u)
    /\ r.user.points > r.randomPoints
    /\ history[Len(history)].points = r.randomPoints

\* C16: no step changes the name or the identifier of a User or removes a
\* User; a step of a claim-points request for user u, whether it stages,
\* commits or aborts, changes the points of no User other than u, registers
\* no User and leaves every committed ClaimRecord as it is.
ClaimFrame ==
  [][/\ \A u \in UserIds :
          /\ u <= Len(users')
          /\ users'[u].doc.name = users[u].doc.name
          /\ users'[u].doc._id = users[u].doc._id
     /\ \A new \in BagToSet(claims') :
          ArrivedAs(new) => users' = users /\ history' = history
     /\ \A old \in Requests, new \in BagToSet(claims') :
          Stepped(old, new) =>
            /\ Len(users') = Len(users)
            /\ \A u \in UserIds : u # old.userId => users'[u] = users[u]
            /\ SubSeq(history', 1, Len(history)) = history]_vars

\* Of two users, one has a committed claim and the other an aborted one.
ClaimFrameWitness ==
  /\ Len(users) = 2 /\ Len(history) = 1
  /\ \E r \in Requests : r.userId = 2 /\ r.status = 200 /\ PointsOf(2) = r.randomPoints
  /\ \E r \in Requests : r.userId = 1 /\ r.status = 500 /\ r.txn = "aborted"
  /\ PointsOf(1) = 0

\* C17 as stated: a claim-points handler that has returned, on whatever
\* path, has ended the session it started: no returned request holds a
\* session that is still active.
SessionEndedOnReturn ==
  \A r \in Requests : r.pc \in Returned => r.session # "active"

\* C18 as stated: whatever storage call fails, a claim-points handler that
\* has returned has sent a response, with status 200, 400, 404 or 500: no
\* request is left unanswered.
ClaimAlwaysAnswered ==
  \A r \in Requests : r.pc \in Returned => r.status \in {200, 400, 404, 500}

\* C19 as stated: every add-user request received, one whose body has no
\* name field included, has been answered with status 201, 400 or 500.
AddUserAlwaysAnswered ==
  lastAdd # NoAdd => lastAdd.status \in {201, 400, 500}

\* C20 as stated: committed ClaimRecords are in timestamp order by commit
\* order: a record committed before another has a timestamp that is not
\* later than the other's.
TimestampsFollowCommitOrder ==
  \A i, j \in 1..Len(history) :
    i < j => history[i].timestamp <= history[j].timestamp

\* C20: the record a claim commits has a timestamp that is not earlier than
\* that of any record committed before it for the same user; and a record
\* that is committed when another claim builds its record has a timestamp
\* that is not later than the one being built.
TimestampsFollowCommitOrderPerUser ==
  [][/\ Len(history') > Len(history) =>
          \A k \in 1..Len(history) :
            history[k].userId = history'[Len(history')].userId =>
              history[k].timestamp <= history'[Len(history')].timestamp
     /\ \A old \in Requests, new \in BagToSet(claims') :
          /\ Stepped(old, new)
          /\ old.historyRecord = NoRecord /\ new.historyRecord # NoRecord
          => \A k \in 1..Len(history) :
               history[k].timestamp <= new.historyRecord.timestamp]_vars

\* A user has two committed records, the second built later than the first.
TimestampsFollowCommitOrderPerUserWitness ==
  /\ Len(history) = 2
  /\ history[1].userId = history[2].userId
  /\ history[1].timestamp < history[2].timestamp

====
